---- MODULE Spec2Model ----
(***************************************************************************)
(* Model of the tax-document client (src/main.rs): one run of main, from   *)
(* the parsed command line to the written ZIP file.                        *)
(*                                                                         *)
(* Text is modelled as a sequence of one-character strings (dates) or as a *)
(* sequence of JSON tokens (HTTP bodies), so that parsing and formatting   *)
(* are computed and not assumed.  An instant (DateTime<Utc>) is a day      *)
(* number counted from 1970-01-01 and a second of that day, both in UTC.   *)
(***************************************************************************)
EXTENDS Integers, Sequences, FiniteSets, TLC

VARIABLES
    pc,                  \* position of main
    result,              \* "running", "ok", or the error main ended with
    tax_id,              \* main:26
    since_date_str,      \* main:27
    until_date_str,      \* main:28
    no_download,         \* main:29
    custom_filename,     \* main:30 (NoName when absent)
    clock,               \* latest reading of the system clock (UTC seconds)
    since_now,           \* Utc::now() read by parse_date(since, true)
    until_now,           \* Utc::now() read by parse_date(until, false)
    since_date,          \* main:32
    until_date,          \* main:33
    doc_date_from,       \* main:36
    doc_date_to,         \* main:37
    doc_only_date_from,  \* main:39
    doc_only_date_to,    \* main:40
    searchReqs,          \* requests POSTed to API_URL_SEARCH, in order
    search_status,       \* HTTP status of the search response read (0: none)
    response_body,       \* main:43
    invoice_data,        \* main:46
    stdout,              \* lines printed
    downloadReqs,        \* requests POSTed to API_URL_DOWNLOAD, in order
    download_status,     \* HTTP status of the download response read (0: none)
    content,             \* download_zip_file:120
    filename,            \* download_zip_file:122
    files,               \* the working directory: set of [name, data]
    fsOps                \* file-system operations performed, in order

vars == <<pc, result, tax_id, since_date_str, until_date_str, no_download,
          custom_filename, clock, since_now, until_now, since_date,
          until_date, doc_date_from, doc_date_to, doc_only_date_from,
          doc_only_date_to, searchReqs, search_status, response_body,
          invoice_data, stdout, downloadReqs, download_status, content,
          filename, files, fsOps>>

-----------------------------------------------------------------------------
(* Bounds *)

\* number of consecutive calendar years, from 2023 on, the explicit date
\* inputs range over (besides the years in EdgeYears)
NumYears == 2
\* number of consecutive days the clock readings range over
NowDays == 1
\* largest number of records in a reprintList
MaxRecords == 2

-----------------------------------------------------------------------------
(* Program constants *)

API_URL_SEARCH == "https://etax.exat.co.th/backend/api/search/reprint"
API_URL_DOWNLOAD == "https://etax.exat.co.th/backend/api/download/zipFiles"
\* FixedOffset::east(7 * 3600)
OffsetSecs == 7 * 3600
SecsPerDay == 24 * 3600

-----------------------------------------------------------------------------
(* Text helpers *)

Digits == <<"0", "1", "2", "3", "4", "5", "6", "7", "8", "9">>

IsDigit(c) == \E i \in 1..10 : Digits[i] = c

DigitVal(c) == (CHOOSE i \in 1..10 : Digits[i] = c) - 1

RECURSIVE Pad(_, _)
\* {:0w} : n >= 0 rendered in decimal, zero-padded to at least w digits
Pad(n, w) ==
    IF n < 10 /\ w <= 1 THEN <<Digits[n + 1]>>
    ELSE Pad(n \div 10, w - 1) \o <<Digits[(n % 10) + 1]>>

RECURSIVE TrimStart(_)
TrimStart(s) ==
    IF s # <<>> /\ Head(s) = " " THEN TrimStart(Tail(s)) ELSE s

RECURSIVE CountDigits(_, _)
\* number of leading digits of s, at most max
CountDigits(s, max) ==
    IF max = 0 \/ s = <<>> \/ ~IsDigit(Head(s)) THEN 0
    ELSE 1 + CountDigits(Tail(s), max - 1)

RECURSIVE NumVal(_)
NumVal(s) ==
    IF s = <<>> THEN 0
    ELSE NumVal(SubSeq(s, 1, Len(s) - 1)) * 10 + DigitVal(s[Len(s)])

Drop(s, n) == SubSeq(s, n + 1, Len(s))

-----------------------------------------------------------------------------
(* Calendar arithmetic (chrono) *)

IsLeap(y) == (y % 4 = 0 /\ y % 100 # 0) \/ y % 400 = 0

DaysInMonth(y, m) ==
    IF m = 2 THEN (IF IsLeap(y) THEN 29 ELSE 28)
    ELSE IF m \in {4, 6, 9, 11} THEN 30 ELSE 31

\* NaiveDate::from_ymd_opt
ValidYmd(y, m, d) == m \in 1..12 /\ d >= 1 /\ d <= DaysInMonth(y, m)

\* days from 1970-01-01 to the civil date y-m-d (proleptic Gregorian)
DaysFromCivil(y, m, d) ==
    LET yy  == IF m <= 2 THEN y - 1 ELSE y
        era == yy \div 400
        yoe == yy - era * 400
        mp  == (m + 9) % 12
        doy == (153 * mp + 2) \div 5 + d - 1
        doe == yoe * 365 + yoe \div 4 - yoe \div 100 + doy
    IN  era * 146097 + doe - 719468

\* the civil date of day number z
CivilFromDays(z) ==
    LET zz  == z + 719468
        era == zz \div 146097
        doe == zz - era * 146097
        yoe == (doe - doe \div 1460 + doe \div 36524 - doe \div 146096) \div 365
        doy == doe - (365 * yoe + yoe \div 4 - yoe \div 100)
        mp  == (5 * doy + 2) \div 153
        d   == doy - (153 * mp + 2) \div 5 + 1
        m   == IF mp < 10 THEN mp + 3 ELSE mp - 9
        y   == yoe + era * 400 + (IF m <= 2 THEN 1 ELSE 0)
    IN  [year |-> y, month |-> m, day |-> d]

Instant(day, sec) == [day |-> day, sec |-> sec]

Epoch == Instant(0, 0)

\* t + n seconds
AddSecs(t, n) ==
    LET total == t.sec + n
    IN  Instant(t.day + total \div SecsPerDay, total % SecsPerDay)

\* a is not later than b
NotAfter(a, b) == a.day < b.day \/ (a.day = b.day /\ a.sec <= b.sec)

\* Utc::now().date_naive() : the calendar date of an instant, read in UTC
DateNaive(t) == CivilFromDays(t.day)

\* NaiveDate::parse_from_str(s, "%Y-%m-%d")
\* numeric items skip leading blanks and take 1..width digits (the year
\* takes any number of digits after an explicit sign); the whole input must
\* be consumed and the fields must name a real date.
ParseFromStr(s) ==
    LET bad == [ok |-> FALSE, year |-> 0, month |-> 0, day |-> 0]
        s1  == TrimStart(s)
        sgn == IF s1 # <<>> /\ Head(s1) \in {"-", "+"} THEN Head(s1) ELSE ""
        s2  == IF sgn = "" THEN s1 ELSE Tail(s1)
        ny  == CountDigits(s2, IF sgn = "" THEN 4 ELSE Len(s2))
        y   == (IF sgn = "-" THEN -1 ELSE 1) * NumVal(SubSeq(s2, 1, ny))
        s3  == Drop(s2, ny)
        s4  == TrimStart(IF s3 = <<>> THEN s3 ELSE Tail(s3))
        nm  == CountDigits(s4, 2)
        m   == NumVal(SubSeq(s4, 1, nm))
        s5  == Drop(s4, nm)
        s6  == TrimStart(IF s5 = <<>> THEN s5 ELSE Tail(s5))
        nd  == CountDigits(s6, 2)
        d   == NumVal(SubSeq(s6, 1, nd))
        s7  == Drop(s6, nd)
    IN  IF ny = 0 THEN bad
        ELSE IF s3 = <<>> \/ Head(s3) # "-" THEN bad
        ELSE IF nm = 0 THEN bad
        ELSE IF s5 = <<>> \/ Head(s5) # "-" THEN bad
        ELSE IF nd = 0 THEN bad
        ELSE IF s7 # <<>> THEN bad
        ELSE IF ~ValidYmd(y, m, d) THEN bad
        ELSE [ok |-> TRUE, year |-> y, month |-> m, day |-> d]

\* variant: the local time taken as UTC, the offset not subtracted
AndHmsNoOffset(date, h, m, s) ==
    Instant(DaysFromCivil(date.year, date.month, date.day),
            h * 3600 + m * 60 + s)

\* offset.ymd(y, m, d).and_hms(h, m, s).with_timezone(&Utc)
AndHmsUtc(date, h, m, s) ==
    AddSecs(Instant(DaysFromCivil(date.year, date.month, date.day),
                    h * 3600 + m * 60 + s),
            0 - OffsetSecs)

\* variant: a text that does not parse falls back to today
parse_date_or_today(date_str, start_of_day, now) ==
    LET p    == ParseFromStr(date_str)
        date == IF date_str = <<>> \/ ~p.ok THEN DateNaive(now) ELSE p
    IN  [ok |-> TRUE,
         value |-> IF start_of_day THEN AndHmsUtc(date, 0, 0, 0)
                   ELSE AndHmsUtc(date, 23, 59, 59)]

\* parse_date; now is the value Utc::now() returns
parse_date(date_str, start_of_day, now) ==
    LET p    == ParseFromStr(date_str)
        date == IF date_str = <<>> THEN DateNaive(now) ELSE p
    IN  IF date_str # <<>> /\ ~p.ok THEN [ok |-> FALSE, value |-> Epoch]
        ELSE [ok |-> TRUE,
              value |-> IF start_of_day THEN AndHmsUtc(date, 0, 0, 0)
                        ELSE AndHmsUtc(date, 23, 59, 59)]

\* t.with_timezone(&offset) broken into calendar fields
InOffset(t, off) ==
    LET l == AddSecs(t, off)
        c == CivilFromDays(l.day)
        r == l.sec
    IN  [year |-> c.year, month |-> c.month, day |-> c.day,
         hour |-> r \div 3600, minute |-> (r % 3600) \div 60,
         second |-> r % 60]

\* .format(DATE_FORMAT) : "%Y-%m-%d %H:%M:%S"
FormatDateTime(f) ==
    Pad(f.year, 4) \o <<"-">> \o Pad(f.month, 2) \o <<"-">> \o Pad(f.day, 2)
        \o <<" ">> \o Pad(f.hour, 2) \o <<":">> \o Pad(f.minute, 2)
        \o <<":">> \o Pad(f.second, 2)

\* .format(ONLY_DATE_FORMAT) : "%Y%m%d"
FormatOnlyDate(f) == Pad(f.year, 4) \o Pad(f.month, 2) \o Pad(f.day, 2)

\* now.format("%Y%m%d%H%M%S")
FormatStamp(f) ==
    Pad(f.year, 4) \o Pad(f.month, 2) \o Pad(f.day, 2) \o Pad(f.hour, 2)
        \o Pad(f.minute, 2) \o Pad(f.second, 2)

-----------------------------------------------------------------------------
(* JSON (serde_json) *)

\* serde_json::Value
Null == [k |-> "null"]
Str(s) == [k |-> "str", s |-> s]
Num(n) == [k |-> "num", n |-> n]
Arr(a) == [k |-> "arr", a |-> a]
Obj(o) == [k |-> "obj", o |-> o]

\* tokens of JSON text
P(c) == [t |-> "punct", c |-> c]
TStr(c) == [t |-> "str", c |-> c]
TNum(c) == [t |-> "num", c |-> c]
TLit(c) == [t |-> "lit", c |-> c]
TJunk(c) == [t |-> "junk", c |-> c]

\* the object keys that occur, in the order serde_json's Map keeps them
KeyOrder ==
    <<"docDate", "docNo", "docType", "error", "fileName", "fileNamePDF",
      "filePath", "filePathPDF", "fileType", "invoiceHdrId",
      "invoiceHdr_id", "reprintList">>

\* Index<&str> for Value: Null unless v is an object holding the key
Index(v, key) ==
    IF v.k = "obj" /\ key \in DOMAIN v.o THEN v.o[key] ELSE Null

\* Value::as_array
as_array(v) == IF v.k = "arr" THEN [some |-> TRUE, a |-> v.a]
               ELSE [some |-> FALSE, a |-> <<>>]

RECURSIVE to_string(_)
RECURSIVE JoinValues(_)
RECURSIVE JoinMembers(_, _)

JoinValues(a) ==
    IF a = <<>> THEN <<>>
    ELSE IF Len(a) = 1 THEN to_string(a[1])
    ELSE to_string(a[1]) \o <<P(",")>> \o JoinValues(Tail(a))

JoinMembers(o, keys) ==
    IF keys = <<>> THEN <<>>
    ELSE LET m == <<TStr(Head(keys)), P(":")>> \o to_string(o[Head(keys)])
         IN  IF Len(keys) = 1 THEN m
             ELSE m \o <<P(",")>> \o JoinMembers(o, Tail(keys))

\* serde_json::to_string, and Display for Value: compact JSON text
to_string(v) ==
    CASE v.k = "null" -> <<TLit("null")>>
      [] v.k = "str"  -> <<TStr(v.s)>>
      [] v.k = "num"  -> <<TNum(v.n)>>
      [] v.k = "arr"  -> <<P("[")>> \o JoinValues(v.a) \o <<P("]")>>
      [] v.k = "obj"  ->
            <<P("{")>>
            \o JoinMembers(v.o, SelectSeq(KeyOrder, LAMBDA q : q \in DOMAIN v.o))
            \o <<P("}")>>

ParseFail == [ok |-> FALSE, v |-> Null, next |-> 0]

IsTok(toks, i, tok) == i <= Len(toks) /\ toks[i] = tok

RECURSIVE ParseValue(_, _)
RECURSIVE ParseElems(_, _, _)
RECURSIVE ParseMembers(_, _, _)

\* elements after "[" or after ","; acc holds the elements read so far
ParseElems(toks, i, acc) ==
    LET e == ParseValue(toks, i)
    IN  IF ~e.ok THEN ParseFail
        ELSE IF IsTok(toks, e.next, P("]"))
             THEN [ok |-> TRUE, v |-> Arr(Append(acc, e.v)), next |-> e.next + 1]
        ELSE IF IsTok(toks, e.next, P(","))
             THEN ParseElems(toks, e.next + 1, Append(acc, e.v))
        ELSE ParseFail

\* members after "{" or after ","; a repeated key keeps its last value
ParseMembers(toks, i, acc) ==
    IF ~(i + 1 <= Len(toks) /\ toks[i].t = "str" /\ toks[i + 1] = P(":"))
    THEN ParseFail
    ELSE LET key == toks[i].c
             e   == ParseValue(toks, i + 2)
             o   == [q \in DOMAIN acc \cup {key} |->
                        IF q = key THEN e.v ELSE acc[q]]
         IN  IF ~e.ok THEN ParseFail
             ELSE IF IsTok(toks, e.next, P("}"))
                  THEN [ok |-> TRUE, v |-> Obj(o), next |-> e.next + 1]
             ELSE IF IsTok(toks, e.next, P(","))
                  THEN ParseMembers(toks, e.next + 1, o)
             ELSE ParseFail

\* one JSON value starting at token i
ParseValue(toks, i) ==
    IF i > Len(toks) THEN ParseFail
    ELSE LET tk == toks[i]
         IN  CASE tk = TLit("null") -> [ok |-> TRUE, v |-> Null, next |-> i + 1]
               [] tk.t = "str" -> [ok |-> TRUE, v |-> Str(tk.c), next |-> i + 1]
               [] tk.t = "num" -> [ok |-> TRUE, v |-> Num(tk.c), next |-> i + 1]
               [] tk = P("[") ->
                    IF IsTok(toks, i + 1, P("]"))
                    THEN [ok |-> TRUE, v |-> Arr(<<>>), next |-> i + 2]
                    ELSE ParseElems(toks, i + 1, <<>>)
               [] tk = P("{") ->
                    IF IsTok(toks, i + 1, P("}"))
                    THEN [ok |-> TRUE, v |-> Obj(<<>>), next |-> i + 2]
                    ELSE ParseMembers(toks, i + 1, <<>>)
               [] OTHER -> ParseFail

\* serde_json::from_str : one value, then end of input
from_str(toks) ==
    LET r == ParseValue(toks, 1)
    IN  IF r.ok /\ r.next = Len(toks) + 1 THEN [ok |-> TRUE, v |-> r.v]
        ELSE [ok |-> FALSE, v |-> Null]

\* variant: file path and file name exchanged
DownloadRecordSwapped(item) ==
    Obj([q \in {"invoiceHdr_id", "docNo", "fileType", "filePathPDF",
                "fileNamePDF", "docType"} |->
            CASE q = "invoiceHdr_id" -> Index(item, "invoiceHdrId")
              [] q = "docNo"         -> Index(item, "docNo")
              [] q = "fileType"      -> Index(item, "fileType")
              [] q = "filePathPDF"   -> Index(item, "fileName")
              [] q = "fileNamePDF"   -> Index(item, "filePath")
              [] q = "docType"       -> Index(item, "docType")])

\* the json!({...}) of parse_search_response, for one item
DownloadRecord(item) ==
    Obj([q \in {"invoiceHdr_id", "docNo", "fileType", "filePathPDF",
                "fileNamePDF", "docType"} |->
            CASE q = "invoiceHdr_id" -> Index(item, "invoiceHdrId")
              [] q = "docNo"         -> Index(item, "docNo")
              [] q = "fileType"      -> Index(item, "fileType")
              [] q = "filePathPDF"   -> Index(item, "filePath")
              [] q = "fileNamePDF"   -> Index(item, "fileName")
              [] q = "docType"       -> Index(item, "docType")])

\* the line parse_search_response prints for one item
ProgressLine(item) ==
    [kind |-> "progress",
     docDate  |-> to_string(Index(item, "docDate")),
     docNo    |-> to_string(Index(item, "docNo")),
     fileName |-> to_string(Index(item, "fileName"))]

SuccessLine == [kind |-> "success", docDate |-> <<>>, docNo |-> <<>>,
                fileName |-> <<>>]

\* variant: a missing or non-array reprintList is taken as the empty list
parse_search_response_or_empty(body) ==
    LET json_data == from_str(body)
        data      == as_array(Index(json_data.v, "reprintList"))
    IN  IF ~json_data.ok
        THEN [outcome |-> "json", lines |-> <<>>, out |-> <<>>]
        ELSE [outcome |-> "ok",
              lines |-> [i \in 1..Len(data.a) |-> ProgressLine(data.a[i])],
              out |-> to_string(Arr([i \in 1..Len(data.a) |->
                                        DownloadRecord(data.a[i])]))]

\* parse_search_response: "json" on malformed text, "panic" when reprintList
\* is not an array, else the printed lines and the serialized list
parse_search_response(body) ==
    LET json_data == from_str(body)
        data      == as_array(Index(json_data.v, "reprintList"))
    IN  IF ~json_data.ok
        THEN [outcome |-> "json", lines |-> <<>>, out |-> <<>>]
        ELSE IF ~data.some
        THEN [outcome |-> "panic", lines |-> <<>>, out |-> <<>>]
        ELSE [outcome |-> "ok",
              lines |-> [i \in 1..Len(data.a) |-> ProgressLine(data.a[i])],
              out |-> to_string(Arr([i \in 1..Len(data.a) |->
                                        DownloadRecord(data.a[i])]))]

-----------------------------------------------------------------------------
(* Inputs and environment *)

\* "YYYY-MM-DD" text with the given field values (not necessarily a date)
YMDString(y, m, d) == Pad(y, 4) \o <<"-">> \o Pad(m, 2) \o <<"-">> \o Pad(d, 2)

NotADate == <<"n", "o", "t", "-", "a", "-", "d", "a", "t", "e">>

\* texts for --since / --until in the date-resolution runs: every field
\* combination of the form DDDD-DD-DD in range and just out of range
EdgeYears == {1969, 2000, 2100}
Years == EdgeYears \cup 2023..(2022 + NumYears)
DateInputs ==
    {YMDString(y, m, d) : y \in Years, m \in 0..13, d \in 0..32}
        \cup {NotADate, <<>>}

\* texts for --since / --until in the full runs
RunDates ==
    {<<>>, YMDString(2024, 1, 1), YMDString(2024, 1, 31),
     YMDString(2024, 13, 40), YMDString(2023, 2, 29), NotADate}

\* clock readings: around midnight UTC and midnight UTC+7 of NowDays days
\* starting 2024-02-29
NowBase == DaysFromCivil(2024, 2, 29)
NowSecs == {0, 16 * 3600 + 3599, 17 * 3600, SecsPerDay - 1}
Nows == {Instant(NowBase + d, s) : d \in 0..(NowDays - 1), s \in NowSecs}
RunNows == {Instant(NowBase, 16 * 3600 + 3599), Instant(NowBase, 17 * 3600)}

\* offsets of the local timezone Local::now() may run under
LocalOffsets == {0, OffsetSecs}

TaxIds == {"1234567890123"}

\* a file name: literal text and, for a generated name, the parts filled
\* into it; NoName is the absent name
FileName(text, tax, from, to, stamp) ==
    [text |-> text, tax |-> tax, from |-> from, to |-> to, stamp |-> stamp]
NoName == FileName("", "", <<>>, <<>>, <<>>)
SomeName(n) == FileName(n, "", <<>>, <<>>, <<>>)
CustomNames == {NoName, SomeName("out.zip")}

\* document records the service may return
Rec1 == Obj([q \in {"invoiceHdrId", "docNo", "fileType", "filePath",
                    "fileName", "docType", "docDate"} |->
            CASE q = "invoiceHdrId" -> Num("101")
              [] q = "docNo"        -> Str("RC-0001")
              [] q = "fileType"     -> Str("PDF")
              [] q = "filePath"     -> Str("/2024/01")
              [] q = "fileName"     -> Str("a.pdf")
              [] q = "docType"      -> Str("T03")
              [] q = "docDate"      -> Str("2024-01-05")])
Rec2 == Obj([q \in {"invoiceHdrId", "docNo", "fileType", "filePath",
                    "fileName", "docType", "docDate"} |->
            CASE q = "invoiceHdrId" -> Str("102")
              [] q = "docNo"        -> Str("RC-0002")
              [] q = "fileType"     -> Null
              [] q = "filePath"     -> Str("/2024/02")
              [] q = "fileName"     -> Str("b.pdf")
              [] q = "docType"      -> Num("3")
              [] q = "docDate"      -> Str("2024-01-06")])
\* an element that is not a full record
RecPartial == Obj([q \in {"docNo", "fileName"} |->
                    IF q = "docNo" THEN Str("RC-0003") ELSE Str("c.pdf")])
Records == {Rec1, Rec2}

RECURSIVE SeqsUpTo(_, _)
SeqsUpTo(S, n) ==
    IF n = 0 THEN {<<>>}
    ELSE LET shorter == SeqsUpTo(S, n - 1)
         IN  shorter \cup {Append(q, x) : q \in shorter, x \in S}

\* the lists a response may carry: every list of full records up to
\* MaxRecords, and lists with the partial element
ReprintLists ==
    SeqsUpTo(Records, MaxRecords) \cup {<<RecPartial>>, <<Rec1, RecPartial>>}

WithList(l) == Obj([q \in {"reprintList"} |-> l])

\* valid JSON whose reprintList is absent or not an array
NoListValues ==
    {Obj(<<>>), Obj([q \in {"error"} |-> Str("bad request")]),
     WithList(Null), WithList(Str("none")), WithList(Obj(<<>>)),
     Arr(<<>>), Null}

\* text that is not JSON
BadTexts ==
    {<<>>, <<TJunk("<html>")>>,
     <<P("{"), TStr("reprintList"), P(":"), P("[")>>,
     to_string(WithList(Arr(<<>>))) \o <<P("}")>>}

SearchBodies ==
    {to_string(WithList(Arr(l))) : l \in ReprintLists}
        \cup {to_string(v) : v \in NoListValues} \cup BadTexts

Statuses == {200, 500}

ZipBytes == <<80, 75, 3, 4>>
ErrorBytes == <<60, 104>>
Contents == {ZipBytes, ErrorBytes}

OldBytes == <<1>>
InitialFiles == {{}, {[name |-> SomeName("out.zip"), data |-> OldBytes]}}

-----------------------------------------------------------------------------
(* The run *)

InitRest ==
    /\ pc = "parse_since"
    /\ result = "running"
    /\ tax_id \in TaxIds
    /\ clock = Epoch
    /\ since_now = Epoch
    /\ until_now = Epoch
    /\ since_date = Epoch
    /\ until_date = Epoch
    /\ doc_date_from = <<>>
    /\ doc_date_to = <<>>
    /\ doc_only_date_from = <<>>
    /\ doc_only_date_to = <<>>
    /\ searchReqs = <<>>
    /\ search_status = 0
    /\ response_body = <<>>
    /\ invoice_data = <<>>
    /\ stdout = <<>>
    /\ downloadReqs = <<>>
    /\ download_status = 0
    /\ content = <<>>
    /\ filename = NoName
    /\ fsOps = <<>>

Init ==
    /\ since_date_str \in RunDates
    /\ until_date_str \in RunDates
    /\ no_download \in BOOLEAN
    /\ custom_filename \in CustomNames
    /\ files \in InitialFiles
    /\ InitRest

\* main returns Err (or panics): nothing after this point runs
Abort(err) == pc' = "done" /\ result' = err

\* main:32, with the clock reading drawn from T
ParseSinceAt(T) ==
    /\ pc = "parse_since"
    /\ \E now \in T :
         LET r == parse_date(since_date_str, TRUE, now)
         IN  /\ clock' = now
             /\ since_now' = now
             /\ IF r.ok
                THEN since_date' = r.value /\ pc' = "parse_until"
                                            /\ UNCHANGED result
                ELSE UNCHANGED since_date /\ Abort("date_parse_error")
    /\ UNCHANGED <<tax_id, since_date_str, until_date_str, no_download,
                   custom_filename, until_now, until_date, doc_date_from,
                   doc_date_to, doc_only_date_from, doc_only_date_to,
                   searchReqs, search_status, response_body, invoice_data,
                   stdout, downloadReqs, download_status, content, filename,
                   files, fsOps>>

\* main:33, with the clock reading drawn from T
ParseUntilAt(T) ==
    /\ pc = "parse_until"
    /\ \E now \in T :
         LET r == parse_date(until_date_str, FALSE, now)
         IN  /\ NotAfter(clock, now)
             /\ clock' = now
             /\ until_now' = now
             /\ IF r.ok
                THEN until_date' = r.value /\ pc' = "format"
                                            /\ UNCHANGED result
                ELSE UNCHANGED until_date /\ Abort("date_parse_error")
    /\ UNCHANGED <<tax_id, since_date_str, until_date_str, no_download,
                   custom_filename, since_now, since_date, doc_date_from,
                   doc_date_to, doc_only_date_from, doc_only_date_to,
                   searchReqs, search_status, response_body, invoice_data,
                   stdout, downloadReqs, download_status, content, filename,
                   files, fsOps>>

ParseSince == ParseSinceAt(RunNows)

ParseUntil == ParseUntilAt(RunNows)

\* variant: the earlier instant is sent as from, the later as to
FormatDatesOrdered ==
    /\ pc = "format"
    /\ LET lo == IF NotAfter(since_date, until_date) THEN since_date
                 ELSE until_date
           hi == IF NotAfter(since_date, until_date) THEN until_date
                 ELSE since_date
       IN  /\ doc_date_from' = FormatDateTime(InOffset(lo, OffsetSecs))
           /\ doc_date_to' = FormatDateTime(InOffset(hi, OffsetSecs))
           /\ doc_only_date_from' = FormatOnlyDate(InOffset(lo, OffsetSecs))
           /\ doc_only_date_to' = FormatOnlyDate(InOffset(hi, OffsetSecs))
    /\ pc' = "fetch"
    /\ UNCHANGED <<result, tax_id, since_date_str, until_date_str, no_download,
                   custom_filename, clock, since_now, until_now, since_date,
                   until_date, searchReqs, search_status, response_body,
                   invoice_data, stdout, downloadReqs, download_status,
                   content, filename, files, fsOps>>

\* main:35-40
FormatDates ==
    /\ pc = "format"
    /\ doc_date_from' = FormatDateTime(InOffset(since_date, OffsetSecs))
    /\ doc_date_to' = FormatDateTime(InOffset(until_date, OffsetSecs))
    /\ doc_only_date_from' = FormatOnlyDate(InOffset(since_date, OffsetSecs))
    /\ doc_only_date_to' = FormatOnlyDate(InOffset(until_date, OffsetSecs))
    /\ pc' = "fetch"
    /\ UNCHANGED <<result, tax_id, since_date_str, until_date_str,
                   no_download, custom_filename, clock, since_now, until_now,
                   since_date, until_date, searchReqs, search_status,
                   response_body, invoice_data, stdout, downloadReqs,
                   download_status, content, filename, files, fsOps>>

\* fetch_tax_documents:74-83 : the form is built and the POST attempted
FetchSend ==
    /\ pc = "fetch"
    /\ searchReqs' = Append(searchReqs,
            [url |-> API_URL_SEARCH, taxId |-> tax_id,
             docDateFrom |-> doc_date_from, docDateTo |-> doc_date_to,
             smartCardNo |-> "null"])
    /\ pc' = "fetch_wait"
    /\ UNCHANGED <<result, tax_id, since_date_str, until_date_str,
                   no_download, custom_filename, clock, since_now, until_now,
                   since_date, until_date, doc_date_from, doc_date_to,
                   doc_only_date_from, doc_only_date_to, search_status,
                   response_body, invoice_data, stdout, downloadReqs,
                   download_status, content, filename, files, fsOps>>

\* variant: a failed search request is sent once more
FetchFailRetry ==
    /\ pc = "fetch_wait"
    /\ IF Len(searchReqs) < 2
       THEN pc' = "fetch" /\ UNCHANGED result
       ELSE Abort("network_error")
    /\ UNCHANGED <<tax_id, since_date_str, until_date_str, no_download,
                   custom_filename, clock, since_now, until_now, since_date,
                   until_date, doc_date_from, doc_date_to, doc_only_date_from,
                   doc_only_date_to, searchReqs, search_status, response_body,
                   invoice_data, stdout, downloadReqs, download_status,
                   content, filename, files, fsOps>>

\* fetch_tax_documents:74,84,86 : a reqwest::Error (the client cannot be
\* built, the request cannot be sent, or the body cannot be read) returns
\* through the ? of main:43
FetchFail ==
    /\ pc = "fetch_wait"
    /\ Abort("network_error")
    /\ UNCHANGED <<tax_id, search_status, since_date_str, until_date_str, no_download,
                   custom_filename, clock, since_now, until_now, since_date,
                   until_date, doc_date_from, doc_date_to,
                   doc_only_date_from, doc_only_date_to, searchReqs,
                   response_body, invoice_data, stdout, downloadReqs,
                   download_status, content, filename, files, fsOps>>

\* fetch_tax_documents:84-86 : a response of any status arrives and its
\* body is returned as text
FetchText ==
    /\ pc = "fetch_wait"
    /\ \E st \in Statuses, body \in SearchBodies :
         /\ search_status' = st
         /\ response_body' = body
    /\ pc' = "map"
    /\ UNCHANGED <<result, tax_id, since_date_str, until_date_str,
                   no_download, custom_filename, clock, since_now, until_now,
                   since_date, until_date, doc_date_from, doc_date_to,
                   doc_only_date_from, doc_only_date_to, searchReqs,
                   invoice_data, stdout, downloadReqs, download_status,
                   content, filename, files, fsOps>>

\* main:46
ParseSearchResponse ==
    /\ pc = "map"
    /\ LET r == parse_search_response(response_body)
       IN  CASE r.outcome = "json" ->
                    Abort("json_error") /\ UNCHANGED <<invoice_data, stdout>>
             [] r.outcome = "panic" ->
                    Abort("panic") /\ UNCHANGED <<invoice_data, stdout>>
             [] r.outcome = "ok" ->
                    /\ stdout' = stdout \o r.lines
                    /\ invoice_data' = r.out
                    /\ pc' = "branch"
                    /\ UNCHANGED result
    /\ UNCHANGED <<tax_id, since_date_str, until_date_str, no_download,
                   custom_filename, clock, since_now, until_now, since_date,
                   until_date, doc_date_from, doc_date_to,
                   doc_only_date_from, doc_only_date_to, searchReqs,
                   search_status, response_body, downloadReqs,
                   download_status, content, filename, files, fsOps>>

\* main:49,53 with --no-download
SkipDownload ==
    /\ pc = "branch"
    /\ no_download
    /\ pc' = "done"
    /\ result' = "ok"
    /\ UNCHANGED <<tax_id, since_date_str, until_date_str, no_download,
                   custom_filename, clock, since_now, until_now, since_date,
                   until_date, doc_date_from, doc_date_to,
                   doc_only_date_from, doc_only_date_to, searchReqs,
                   search_status, response_body, invoice_data, stdout,
                   downloadReqs, download_status, content, filename, files,
                   fsOps>>

\* variant: the flag is not consulted
DownloadSendAlways ==
    /\ pc = "branch"
    /\ downloadReqs' = Append(downloadReqs,
            [url |-> API_URL_DOWNLOAD, listfile |-> invoice_data,
             type |-> "PDF"])
    /\ pc' = "download_wait"
    /\ UNCHANGED <<result, tax_id, since_date_str, until_date_str, no_download,
                   custom_filename, clock, since_now, until_now, since_date,
                   until_date, doc_date_from, doc_date_to, doc_only_date_from,
                   doc_only_date_to, searchReqs, search_status, response_body,
                   invoice_data, stdout, download_status, content, filename,
                   files, fsOps>>

\* variant: the response text is sent in place of the mapped list
DownloadSendRaw ==
    /\ pc = "branch"
    /\ ~no_download
    /\ downloadReqs' = Append(downloadReqs,
            [url |-> API_URL_DOWNLOAD, listfile |-> response_body,
             type |-> "PDF"])
    /\ pc' = "download_wait"
    /\ UNCHANGED <<result, tax_id, since_date_str, until_date_str, no_download,
                   custom_filename, clock, since_now, until_now, since_date,
                   until_date, doc_date_from, doc_date_to, doc_only_date_from,
                   doc_only_date_to, searchReqs, search_status, response_body,
                   invoice_data, stdout, download_status, content, filename,
                   files, fsOps>>

\* main:49-50, download_zip_file:109-117 : the multipart form is built and
\* the POST attempted
DownloadSend ==
    /\ pc = "branch"
    /\ ~no_download
    /\ downloadReqs' = Append(downloadReqs,
            [url |-> API_URL_DOWNLOAD, listfile |-> invoice_data,
             type |-> "PDF"])
    /\ pc' = "download_wait"
    /\ UNCHANGED <<result, tax_id, since_date_str, until_date_str,
                   no_download, custom_filename, clock, since_now, until_now,
                   since_date, until_date, doc_date_from, doc_date_to,
                   doc_only_date_from, doc_only_date_to, searchReqs,
                   search_status, response_body, invoice_data, stdout,
                   download_status, content, filename, files, fsOps>>

\* download_zip_file:109,118,120 : a reqwest::Error returns through the ?
DownloadFail ==
    /\ pc = "download_wait"
    /\ Abort("network_error")
    /\ UNCHANGED <<tax_id, download_status, since_date_str, until_date_str, no_download,
                   custom_filename, clock, since_now, until_now, since_date,
                   until_date, doc_date_from, doc_date_to,
                   doc_only_date_from, doc_only_date_to, searchReqs,
                   search_status, response_body, invoice_data, stdout,
                   downloadReqs, content, filename, files, fsOps>>

\* variant: a status that is not 2xx is turned into an error
DownloadBytesChecked ==
    /\ pc = "download_wait"
    /\ \E st \in Statuses, bytes \in Contents :
         /\ download_status' = st
         /\ IF st \in 200..299
            THEN content' = bytes /\ pc' = "create" /\ UNCHANGED result
            ELSE UNCHANGED content /\ Abort("network_error")
    /\ UNCHANGED <<tax_id, since_date_str, until_date_str, no_download,
                   custom_filename, clock, since_now, until_now, since_date,
                   until_date, doc_date_from, doc_date_to, doc_only_date_from,
                   doc_only_date_to, searchReqs, search_status, response_body,
                   invoice_data, stdout, downloadReqs, filename, files, fsOps>>

\* download_zip_file:118-120 : a response of any status arrives and its
\* whole body is read
DownloadBytes ==
    /\ pc = "download_wait"
    /\ \E st \in Statuses, bytes \in Contents :
         /\ download_status' = st
         /\ content' = bytes
    /\ pc' = "create"
    /\ UNCHANGED <<result, tax_id, since_date_str, until_date_str,
                   no_download, custom_filename, clock, since_now, until_now,
                   since_date, until_date, doc_date_from, doc_date_to,
                   doc_only_date_from, doc_only_date_to, searchReqs,
                   search_status, response_body, invoice_data, stdout,
                   downloadReqs, filename, files, fsOps>>

\* download_zip_file:122-128
GeneratedName(tax, from, to, stamp) ==
    FileName("TaxDocuments_{}_{}_{}_{}.zip", tax, from, to, stamp)

Filename(custom, tax, from, to, stamp) ==
    IF custom # NoName THEN custom ELSE GeneratedName(tax, from, to, stamp)

\* File::create on the directory fs: the file exists and is empty
Created(fs, name) ==
    {f \in fs : f.name # name} \cup {[name |-> name, data |-> <<>>]}

\* write_all on the directory fs
Written(fs, name, bytes) ==
    {f \in fs : f.name # name} \cup {[name |-> name, data |-> bytes]}

\* download_zip_file:122-130
CreateFile ==
    /\ pc = "create"
    /\ \E now \in RunNows, off \in LocalOffsets :
         /\ NotAfter(clock, now)
         /\ clock' = now
         /\ filename' = Filename(custom_filename, tax_id, doc_only_date_from,
                                 doc_only_date_to,
                                 FormatStamp(InOffset(now, off)))
    /\ \/ /\ files' = Created(files, filename')
          /\ fsOps' = Append(fsOps, [op |-> "create", name |-> filename'])
          /\ pc' = "write"
          /\ UNCHANGED result
       \/ /\ Abort("io_error")
          /\ UNCHANGED <<files, fsOps>>
    /\ UNCHANGED <<tax_id, since_date_str, until_date_str, no_download,
                   custom_filename, since_now, until_now, since_date,
                   until_date, doc_date_from, doc_date_to,
                   doc_only_date_from, doc_only_date_to, searchReqs,
                   search_status, response_body, invoice_data, stdout,
                   downloadReqs, download_status, content>>

\* download_zip_file:131-135, main:53
WriteAll ==
    /\ pc = "write"
    /\ \/ /\ files' = Written(files, filename, content)
          /\ fsOps' = Append(fsOps, [op |-> "write", name |-> filename])
          /\ stdout' = Append(stdout, SuccessLine)
          /\ pc' = "done"
          /\ result' = "ok"
       \/ /\ Abort("io_error")
          /\ UNCHANGED <<files, fsOps, stdout>>
    /\ UNCHANGED <<tax_id, since_date_str, until_date_str, no_download,
                   custom_filename, clock, since_now, until_now, since_date,
                   until_date, doc_date_from, doc_date_to,
                   doc_only_date_from, doc_only_date_to, searchReqs,
                   search_status, response_body, invoice_data, downloadReqs,
                   download_status, content, filename>>

Next ==
    \/ ParseSince
    \/ ParseUntil
    \/ FormatDates
    \/ FetchSend
    \/ FetchFail
    \/ FetchText
    \/ ParseSearchResponse
    \/ SkipDownload
    \/ DownloadSend
    \/ DownloadFail
    \/ DownloadBytes
    \/ CreateFile
    \/ WriteAll

Spec == Init /\ [][Next]_vars

-----------------------------------------------------------------------------
(* Date resolution up to the search request: the same text for both        *)
(* bounds, over every input in DateInputs and every clock reading in Nows  *)

DateInit ==
    /\ since_date_str \in DateInputs
    /\ until_date_str = since_date_str
    /\ no_download = TRUE
    /\ custom_filename = NoName
    /\ files = {}
    /\ InitRest

ResolveSince == ParseSinceAt(Nows)

ResolveUntil == ParseUntilAt(Nows)

DateNext ==
    \/ ResolveSince
    \/ ResolveUntil
    \/ FormatDates
    \/ FetchSend

DateSpec == DateInit /\ [][DateNext]_vars

-----------------------------------------------------------------------------
(* Vocabulary of the properties *)

\* the order of the positions of main
Rank(p) ==
    CASE p = "parse_since"   -> 1
      [] p = "parse_until"   -> 2
      [] p = "format"        -> 3
      [] p = "fetch"         -> 4
      [] p = "fetch_wait"    -> 5
      [] p = "map"           -> 6
      [] p = "branch"        -> 7
      [] p = "download_wait" -> 8
      [] p = "create"        -> 9
      [] p = "write"         -> 10
      [] p = "done"          -> 11

\* y-m-d is a date of the Gregorian calendar
RealDate(y, m, d) ==
    /\ m \in 1..12
    /\ d \in 1..31
    /\ d = 31 => m \in {1, 3, 5, 7, 8, 10, 12}
    /\ m = 2 => d <= 29
    /\ (m = 2 /\ d = 29) => (y % 4 = 0 /\ (y % 100 # 0 \/ y % 400 = 0))

\* the texts YYYY-MM-DD that name a date, for the years of the inputs
ValidDateTexts ==
    {YMDString(q[1], q[2], q[3]) :
        q \in {r \in (Years \cup {2024}) \X (1..12) \X (1..31) :
                    RealDate(r[1], r[2], r[3])}}

\* a non-empty text that does not name a date
Malformed(text) == text # <<>> /\ text \notin ValidDateTexts

StartOfDay == <<" ", "0", "0", ":", "0", "0", ":", "0", "0">>
EndOfDay == <<" ", "2", "3", ":", "5", "9", ":", "5", "9">>

\* the digits of a text, in order
DigitsOf(text) == SelectSeq(text, IsDigit)

\* no request was sent and no file was touched
NoEffects == searchReqs = <<>> /\ downloadReqs = <<>> /\ fsOps = <<>>

-----------------------------------------------------------------------------
(* Properties *)

C5_DayBoundsRoundTrip ==
    since_date_str \in ValidDateTexts =>
        /\ Rank(pc) > Rank("parse_since") =>
             LET f == InOffset(since_date, OffsetSecs)
             IN  /\ YMDString(f.year, f.month, f.day) = since_date_str
                 /\ <<f.hour, f.minute, f.second>> = <<0, 0, 0>>
        /\ Rank(pc) > Rank("parse_until") =>
             LET f == InOffset(until_date, OffsetSecs)
             IN  /\ YMDString(f.year, f.month, f.day) = until_date_str
                 /\ <<f.hour, f.minute, f.second>> = <<23, 59, 59>>
        /\ Rank(pc) > Rank("format") =>
             /\ doc_date_from = since_date_str \o StartOfDay
             /\ doc_date_to = until_date_str \o EndOfDay
             /\ doc_only_date_from = DigitsOf(since_date_str)
             /\ doc_only_date_to = DigitsOf(until_date_str)
        /\ \A i \in 1..Len(searchReqs) :
             /\ searchReqs[i].docDateFrom = since_date_str \o StartOfDay
             /\ searchReqs[i].docDateTo = until_date_str \o EndOfDay

\* C5 witness: the request for the leap day has been sent
C5_Witness ==
    /\ since_date_str = YMDString(2024, 2, 29)
    /\ Len(searchReqs) = 1
    /\ searchReqs[1].docDateFrom = YMDString(2024, 2, 29) \o StartOfDay

\* the calendar date of instant t read in UTC+7, as YYYY-MM-DD
TodayInOffset(t) ==
    LET f == InOffset(t, OffsetSecs) IN YMDString(f.year, f.month, f.day)

\* C6: when the date texts are empty, docDateFrom carries the date that the
\* instant of the clock reading has in UTC+7, at 00:00:00, and docDateTo the
\* date of its clock reading in UTC+7, at 23:59:59.
C6_EmptyIsTodayInOffset ==
    (since_date_str = <<>> /\ until_date_str = <<>>
        /\ Rank(pc) > Rank("format")) =>
        /\ doc_date_from = TodayInOffset(since_now) \o StartOfDay
        /\ doc_date_to = TodayInOffset(until_now) \o EndOfDay

\* C10: for two valid date texts in either order, date resolution does not
\* fail, from is the start of the --since day and to the end of the --until
\* day, and the search request is sent with exactly these.
C10_OrderNotValidated ==
    (since_date_str \in ValidDateTexts /\ until_date_str \in ValidDateTexts) =>
        /\ result # "date_parse_error"
        /\ Rank(pc) > Rank("format") =>
             /\ doc_date_from = since_date_str \o StartOfDay
             /\ doc_date_to = until_date_str \o EndOfDay
        /\ Rank(pc) > Rank("fetch") =>
             /\ Len(searchReqs) = 1
             /\ searchReqs[1].docDateFrom = since_date_str \o StartOfDay
             /\ searchReqs[1].docDateTo = until_date_str \o EndOfDay

\* C10 witness: --since 2024-01-31 --until 2024-01-01 has sent its request
C10_Witness ==
    /\ since_date_str = YMDString(2024, 1, 31)
    /\ until_date_str = YMDString(2024, 1, 1)
    /\ Len(searchReqs) = 1
    /\ searchReqs[1].docDateFrom = YMDString(2024, 1, 31) \o StartOfDay
    /\ searchReqs[1].docDateTo = YMDString(2024, 1, 1) \o EndOfDay

\* the text of the response that carries the list l
ListText == [l \in ReprintLists |-> to_string(WithList(Arr(l)))]

\* the texts of the responses without an array reprintList
NoListTexts == {to_string(v) : v \in NoListValues}

\* the renaming of the mapper: <<field sent, field received>>
FieldMap ==
    {<<"invoiceHdr_id", "invoiceHdrId">>, <<"docNo", "docNo">>,
     <<"fileType", "fileType">>, <<"filePathPDF", "filePath">>,
     <<"fileNamePDF", "fileName">>, <<"docType", "docType">>}

\* the working directory is as the run found it
FilesUntouched == fsOps = <<>> /\ files \in InitialFiles

\* C2: with --no-download no download request is ever sent and no file is
\* touched, while (once the dates are resolved) the search request is sent
\* and, for a returned list, one progress line per record is printed;
\* without the flag, once search and mapping have succeeded, exactly one
\* download request is sent.
C2_NoDownloadFlag ==
    /\ no_download => downloadReqs = <<>> /\ FilesUntouched
    /\ (no_download /\ doc_date_from # <<>> /\ Rank(pc) > Rank("fetch")) =>
            Len(searchReqs) = 1
    /\ \A l \in ReprintLists :
         (no_download /\ response_body = ListText[l]
             /\ Rank(pc) > Rank("map")) =>
            /\ Len(stdout) = Len(l)
            /\ \A i \in 1..Len(l) :
                 /\ stdout[i].kind = "progress"
                 /\ stdout[i].docNo = to_string(l[i].o["docNo"])
                 /\ stdout[i].fileName = to_string(l[i].o["fileName"])
    /\ (~no_download /\ invoice_data # <<>> /\ Rank(pc) > Rank("branch")) =>
            Len(downloadReqs) = 1

\* C2 witness: a --no-download run has ended well after printing the lines
\* of a two-record list
C2_Witness ==
    /\ no_download
    /\ pc = "done"
    /\ result = "ok"
    /\ Len(searchReqs) = 1
    /\ response_body = ListText[<<Rec1, Rec2>>]
    /\ Len(stdout) = 2

\* C3: for a response whose reprintList holds the records l, the mapper's
\* output is the text of an array of Len(l) objects in the same order, each
\* with exactly the six renamed fields, whose values are those of the
\* record's fields of FieldMap.
C3_MapperProjects ==
    \A l \in ReprintLists :
        (response_body = ListText[l] /\ Rank(pc) > Rank("map")) =>
            LET out == from_str(invoice_data)
            IN  /\ out.ok
                /\ out.v.k = "arr"
                /\ Len(out.v.a) = Len(l)
                /\ \A i \in 1..Len(l) :
                     /\ out.v.a[i].k = "obj"
                     /\ DOMAIN out.v.a[i].o = {fm[1] : fm \in FieldMap}
                     /\ \A fm \in FieldMap :
                          fm[2] \in DOMAIN l[i].o =>
                              out.v.a[i].o[fm[1]] = l[i].o[fm[2]]

\* C3 witness: a two-record list has been mapped
C3_Witness ==
    /\ response_body = ListText[<<Rec1, Rec2>>]
    /\ invoice_data # <<>>
    /\ Rank(pc) > Rank("map")

\* C4: when the response is JSON without an array reprintList, the run
\* ends in the crash: nothing is mapped or printed, no download request is
\* sent and no file is touched.
C4_MissingListCrashes ==
    response_body \in NoListTexts =>
        /\ invoice_data = <<>>
        /\ stdout = <<>>
        /\ downloadReqs = <<>>
        /\ FilesUntouched
        /\ pc \in {"map", "done"}
        /\ pc = "done" => result = "panic"

\* C4 witness: the response {} has crashed the run
C4_Witness ==
    /\ response_body = to_string(Obj(<<>>))
    /\ pc = "done"
    /\ result = "panic"

\* what each state of a strictly sequential run looks like
SequentialState ==
    /\ Len(searchReqs) <= 1
    /\ Len(downloadReqs) <= 1
    /\ searchReqs # <<>> =>
         /\ Rank(pc) > Rank("fetch")
         /\ searchReqs[1].docDateFrom = doc_date_from
         /\ searchReqs[1].docDateTo = doc_date_to
         /\ doc_date_from # <<>>
    /\ search_status # 0 => Len(searchReqs) = 1
    /\ (invoice_data # <<>> \/ stdout # <<>>) => search_status # 0
    /\ downloadReqs # <<>> =>
         /\ search_status # 0
         /\ invoice_data # <<>>
         /\ downloadReqs[1].listfile = invoice_data
         /\ \E l \in ReprintLists :
              /\ response_body = ListText[l]
              /\ from_str(downloadReqs[1].listfile).ok
              /\ from_str(downloadReqs[1].listfile).v.k = "arr"
              /\ Len(from_str(downloadReqs[1].listfile).v.a) = Len(l)
    /\ download_status # 0 => Len(downloadReqs) = 1
    /\ fsOps # <<>> =>
         /\ download_status # 0
         /\ fsOps[1] = [op |-> "create", name |-> filename]
         /\ Len(fsOps) <= 2
         /\ Len(fsOps) = 2 =>
              /\ fsOps[2] = [op |-> "write", name |-> filename]
              /\ [name |-> filename, data |-> content] \in files
    /\ fsOps = <<>> => files \in InitialFiles

\* C7: the steps of a run happen in the order date resolution, search
\* request, mapping, download request, file write, each at most once: every
\* step moves main forward, at most one request of each kind is sent, the
\* download request follows the mapping and carries its output, and the
\* file is written after the download body was read.
C7_StrictSequence ==
    []SequentialState /\ [][Rank(pc') > Rank(pc)]_vars

\* C7 witness: a run has written its file
C7_Witness ==
    /\ pc = "done"
    /\ result = "ok"
    /\ Len(searchReqs) = 1
    /\ Len(downloadReqs) = 1
    /\ Len(fsOps) = 2

\* C8: an error ends the run and nothing runs after it; an error of the
\* search request or a response that is not JSON leaves no progress line,
\* no download request and no file operation; an error of the download
\* request leaves the files untouched and no success line; no request is
\* sent twice.
C8_FirstErrorAborts ==
    /\ result # "running" => pc = "done" /\ ~ENABLED Next
    /\ ((result = "network_error" /\ downloadReqs = <<>>)
            \/ result = "json_error") =>
         /\ stdout = <<>>
         /\ invoice_data = <<>>
         /\ downloadReqs = <<>>
         /\ FilesUntouched
    /\ (response_body \in BadTexts /\ search_status # 0
            /\ Rank(pc) > Rank("map")) => result = "json_error"
    /\ (result = "network_error" /\ downloadReqs # <<>>) =>
         /\ FilesUntouched
         /\ \A i \in 1..Len(stdout) : stdout[i] # SuccessLine
    /\ Len(searchReqs) <= 1
    /\ Len(downloadReqs) <= 1

\* C8 witness: the download request failed and the old out.zip is intact
C8_Witness ==
    /\ result = "network_error"
    /\ Len(downloadReqs) = 1
    /\ files = {[name |-> SomeName("out.zip"), data |-> OldBytes]}

\* C9: the status of a response changes nothing: once a search response has
\* been read, whatever its status, the run goes on to the mapper and fails
\* there only on text that is not JSON (or lacks the list); once a download
\* body has been read, whatever its status, the run goes on to the file,
\* and unless creating or writing the file fails, the bytes are in the
\* file and the success line is printed.
C9_StatusIgnored ==
    /\ search_status # 0 =>
         /\ Rank(pc) >= Rank("map")
         /\ Rank(pc) > Rank("map") =>
              /\ result = "json_error" <=> response_body \in BadTexts
              /\ result = "panic" <=> response_body \in NoListTexts
              /\ result = "network_error" => downloadReqs # <<>>
    /\ download_status # 0 =>
         /\ Rank(pc) >= Rank("create")
         /\ pc = "done" => result \in {"ok", "io_error"}
         /\ result = "ok" =>
              /\ [name |-> filename, data |-> content] \in files
              /\ stdout # <<>> /\ stdout[Len(stdout)] = SuccessLine

\* C9 witness: an error response to both requests ended with its body in
\* the file
C9_Witness ==
    /\ search_status = 500
    /\ download_status = 500
    /\ result = "ok"
    /\ content = ErrorBytes
    /\ [name |-> filename, data |-> ErrorBytes] \in files

====
